---- MODULE Spec2Model ----
(***************************************************************************)
(* A model of src/index.js: the Web class, which merges a caller's         *)
(* configuration over defaults, attaches the middleware of a Koa           *)
(* application in a fixed order, creates the HTTP or HTTP/2 server and      *)
(* exposes listen() and close().                                           *)
(*                                                                         *)
(* JavaScript values are records tagged by "type".  A string is a sequence *)
(* of fragments (usually single characters, or whole path segments) so     *)
(* that trimming, splitting, templating and glob matching are computed.    *)
(***************************************************************************)
EXTENDS Integers, Sequences, FiniteSets, TLC

VARIABLES
    env,        \* process.env, read at module load and in the constructor
    input,      \* the `config` argument of `new Web(config)`
    web,        \* the instance: none, constructed (config, app, server) or threw
    request,    \* the last request that went through the rate-limit and CSRF steps
    logs,       \* the calls received by the loggers, in order
    events,     \* the application-level error events emitted, in order
    net,        \* the sockets the operating system has bound: <<instance, port>>
    inst,       \* per instance: the state of its server and of its promises
    proc        \* the Node process: "running", or "crashed" by an uncaught error

vars == <<env, input, web, request, logs, events, net, inst, proc>>

----------------------------------------------------------------------------
(* JavaScript values *)

Undefined == [type |-> "undefined"]
Null == [type |-> "null"]
Bool(b) == [type |-> "boolean", value |-> b]
Num(n) == [type |-> "number", value |-> n]
Str(s) == [type |-> "string", chars |-> s]
Fn(name) == [type |-> "function", name |-> name]
Obj(props) == [type |-> "object", props |-> props]
Arr(items) == [type |-> "array", items |-> items]

\* The empty property map of `{}`.
NoProps == [k \in {} |-> Undefined]

\* JavaScript's ToBoolean.
Truthy(v) ==
    CASE v.type \in {"undefined", "null"} -> FALSE
      [] v.type = "boolean" -> v.value
      [] v.type = "number" -> v.value # 0
      [] v.type = "string" -> v.chars # <<>>
      [] OTHER -> TRUE

\* Reading a property of undefined or null throws a TypeError.
Nullish(v) == v.type \in {"undefined", "null"}

\* `o.k`, for a value o that is not nullish.
Get(o, k) ==
    IF o.type = "object" /\ k \in DOMAIN o.props THEN o.props[k] ELSE Undefined

\* `{...a, ...b}` on property maps.
Spread(a, b) ==
    [k \in (DOMAIN a) \cup (DOMAIN b) |-> IF k \in DOMAIN b THEN b[k] ELSE a[k]]

\* lodash `_.isFunction`.
IsFunction(v) == v.type = "function"

Whitespace == {" ", "\t"}

\* is-string-and-not-blank: a string whose trimmed value is not empty.
isSANB(v) ==
    /\ v.type = "string"
    /\ \E i \in 1..Len(v.chars) : v.chars[i] \notin Whitespace

\* The `boolean` package: true for true, 1 and the strings it lists.
boolean(v) ==
    CASE v.type = "boolean" -> v.value
      [] v.type = "number" -> v.value = 1
      [] v.type = "string" -> v.chars \in {<<"true">>, <<"1">>, <<"yes">>, <<"on">>}
      [] OTHER -> FALSE

\* `s.split(',')` on a string of fragments.
RECURSIVE SplitComma(_)
SplitComma(s) ==
    IF \A i \in 1..Len(s) : s[i] # ","
    THEN <<Str(s)>>
    ELSE LET i == CHOOSE j \in 1..Len(s) :
                      s[j] = "," /\ \A k \in 1..(j - 1) : s[k] # ","
         IN <<Str(SubSeq(s, 1, i - 1))>> \o SplitComma(SubSeq(s, i + 1, Len(s)))

----------------------------------------------------------------------------
(* The environment and the defaults *)

\* What @ladjs/shared-config returns for 'WEB' in a configured deployment:
\* the fields the constructor has no default of its own for.
SharedFull ==
    [port |-> Num(3000),
     serverHost |-> Str(<<"0.0.0.0">>),
     protocol |-> Str(<<"http">>),
     timeout |-> Obj([ms |-> Num(30000)]),
     rateLimit |-> Obj([max |-> Num(100)]),
     auth |-> Bool(FALSE),
     i18n |-> Obj(NoProps),
     cors |-> Obj(NoProps),
     passport |-> Bool(FALSE),
     storeIPAddress |-> Obj(NoProps),
     logger |-> Obj([console |-> Bool(TRUE)])]

\* An environment with nothing set but WEB_HOST and NODE_ENV.
BareEnv(host, mode) ==
    [WEB_HOST |-> host, NODE_ENV |-> mode, WEB_URL |-> Undefined,
     SESSION_KEYS |-> Undefined, COOKIES_KEY |-> Undefined,
     TRUST_PROXY |-> Undefined, shared |-> NoProps]

\* An environment with every variable the module reads set.
FullEnv(host, mode) ==
    [WEB_HOST |-> host, NODE_ENV |-> mode,
     WEB_URL |-> Str(<<"https://", "example.com">>),
     SESSION_KEYS |-> Str(<<"k1", ",", "k2">>),
     COOKIES_KEY |-> Str(<<"web.sid">>),
     TRUST_PROXY |-> Str(<<"true">>), shared |-> SharedFull]

Hosts == {Undefined, Str(<<" ">>), Str(<<"example.com">>)}
Modes == {Str(<<"test">>), Str(<<"production">>)}

Envs == {BareEnv(h, m) : h \in Hosts, m \in Modes}
            \cup {FullEnv(h, m) : h \in Hosts, m \in Modes}

\* `process.env.X || fallback`, `process.env.X ? a : b`.
Or(v, fallback) == IF Truthy(v) THEN v ELSE fallback

\* defaultSrc with the blank test left out (any string counts as a host
\* name): the variant C8 is tested against.
defaultSrc_blank(e) ==
    IF e.WEB_HOST.type = "string"
    THEN Arr(<<Str(<<"'self'">>), Str(<<"data:">>),
               Str(<<"*.">> \o e.WEB_HOST.chars),
               Str(<<"*.">> \o e.WEB_HOST.chars \o <<":*">>),
               Str(e.WEB_HOST.chars),
               Str(e.WEB_HOST.chars \o <<":*">>)>>)
    ELSE Null

\* The module-level constant defaultSrc.
defaultSrc(e) ==
    IF isSANB(e.WEB_HOST)
    THEN Arr(<<Str(<<"'self'">>), Str(<<"data:">>),
               Str(<<"*.">> \o e.WEB_HOST.chars),
               Str(<<"*.">> \o e.WEB_HOST.chars \o <<":*">>),
               Str(e.WEB_HOST.chars),
               Str(e.WEB_HOST.chars \o <<":*">>)>>)
    ELSE Null

reportUri(e) ==
    IF isSANB(e.WEB_URL) THEN Str(e.WEB_URL.chars \o <<"/report">>) ELSE Null

\* `[...defaultSrc, x, ...]`
Append2(arr, more) == Arr(arr.items \o more)

contentSecurityPolicy(e) ==
    IF Truthy(defaultSrc(e))
    THEN Obj([directives |-> Obj(
            [defaultSrc |-> defaultSrc(e),
             connectSrc |-> Append2(defaultSrc(e),
                                   <<Str(<<"https://www.google-analytics.com">>)>>),
             fontSrc |-> defaultSrc(e),
             imgSrc |-> defaultSrc(e),
             styleSrc |-> Append2(defaultSrc(e), <<Str(<<"'unsafe-inline'">>)>>),
             scriptSrc |-> Append2(defaultSrc(e),
                                  <<Str(<<"https://www.googletagmanager.com">>),
                                    Str(<<"https://unpkg.com">>),
                                    Str(<<"'unsafe-inline'">>)>>),
             reportUri |-> IF Truthy(reportUri(e)) THEN reportUri(e) ELSE Null])])
    ELSE Null

helmetDefault(e) ==
    Obj([contentSecurityPolicy |-> contentSecurityPolicy(e),
         expectCt |-> Obj([enforce |-> Bool(TRUE), maxAge |-> Num(2592000),
                           reportUri |-> reportUri(e)]),
         hsts |-> Obj([maxAge |-> Num(31557600), includeSubDomains |-> Bool(TRUE),
                       preload |-> Bool(TRUE)]),
         referrerPolicy |-> Obj([policy |-> Str(<<"same-origin">>)]),
         xssFilter |-> Obj([reportUri |-> reportUri(e)])])

viewsDefault ==
    Obj([root |-> Str(<<"./app/views">>),
         locals |-> Obj(NoProps),
         options |-> Obj([extension |-> Str(<<"pug">>)])])

faviconDefault ==
    Obj([path |-> Str(<<"./assets/img/favicon.ico">>), options |-> Obj(NoProps)])

\* The object literal of the constructor, before `...config`.
Defaults(e) ==
    Spread(e.shared,
       [meta |-> Obj(NoProps),
        views |-> viewsDefault,
        csrf |-> Obj(NoProps),
        csrfIgnoredGlobs |-> Arr(<<Str(<<"/", "report">>)>>),
        rateLimitIgnoredGlobs |-> Arr(<<Str(<<"/", "report">>)>>),
        sessionKeys |-> IF Truthy(e.SESSION_KEYS)
                        THEN Arr(SplitComma(e.SESSION_KEYS.chars))
                        ELSE Arr(<<Str(<<"lad">>)>>),
        cookiesKey |-> Or(e.COOKIES_KEY, Str(<<"lad.sid">>)),
        favicon |-> faviconDefault,
        buildDir |-> Str(<<"./build">>),
        serveStatic |-> Obj(NoProps),
        redirectLoop |-> Obj(NoProps),
        koaCash |-> Bool(FALSE),
        cacheResponses |-> Bool(FALSE),
        genSid |-> Fn("genSid"),
        methodOverride |-> Arr(<<Fn("_method")>>),
        helmet |-> helmetDefault(e),
        compress |-> Obj([br |-> Obj([params |-> Obj(
                        [BROTLI_PARAM_MODE |-> Str(<<"BROTLI_MODE_TEXT">>),
                         BROTLI_PARAM_QUALITY |-> Num(4)])])])])

\* `{...defaults, ...config}`: the caller's top-level fields replace the defaults.
mergeConfig(e, config) == Spread(Defaults(e), config)

\* `this.config.k`
Cfg(config, k) == IF k \in DOMAIN config THEN config[k] ELSE Undefined

----------------------------------------------------------------------------
(* The constructor *)

If(cond, mw) == IF cond THEN mw ELSE <<>>

\* The app.use calls with flash attached before the session store: the
\* variant C1 is tested against.
Middleware_flashFirst(config, e) ==
    <<"requestReceived">>
    \o If(Truthy(Cfg(config, "timeout")), <<"timeout">>)
    \o <<"responseTime", "requestId", "cabin">>
    \o If(IsFunction(Cfg(config, "hookBeforeSetup")), <<"hookBeforeSetup">>)
    \o If(Truthy(Cfg(config, "auth")), <<"auth">>)
    \o If(Truthy(Cfg(config, "rateLimit")), <<"rateLimit">>)
    \o <<"removeTrailingSlashes">>
    \o If(Truthy(Cfg(config, "helmet")), <<"helmet">>)
    \o If(Truthy(Cfg(config, "i18n")), <<"i18n.middleware", "i18n.redirect">>)
    \o <<"conditional", "etag">>
    \o If(Truthy(Cfg(config, "cors")), <<"cors">>)
    \o If(Truthy(Cfg(config, "compress")), <<"compress">>)
    \o If(Truthy(Cfg(config, "koaCash")), <<"koaCash">>)
    \o If(Truthy(Cfg(config, "cacheResponses")), <<"cacheResponses">>)
    \o If(Truthy(Cfg(config, "favicon")), <<"favicon">>)
    \o If(Truthy(Cfg(config, "buildDir")) /\ Truthy(Cfg(config, "serveStatic")),
          <<"serveStatic">>)
    \o <<"views", "isajax">>
    \o If(Truthy(Cfg(config, "meta")), <<"meta">>)
    \o <<"stateHelper">>
    \o <<"flash">>
    \o If(Truthy(Cfg(config, "redirectLoop")), <<"redirectLoop">>)
    \o <<"session">>
    \o <<"bodyParser", "json">>
    \o If(Truthy(Cfg(config, "methodOverride")), <<"methodOverride">>)
    \o If(Truthy(Cfg(config, "csrf")) /\ e.NODE_ENV # Str(<<"test">>), <<"csrf">>)
    \o If(Truthy(Cfg(config, "passport")),
          <<"passport.initialize", "passport.session">>)
    \o If(Truthy(Cfg(config, "storeIPAddress")), <<"storeIPAddress">>)
    \o <<"koa404Handler">>
    \o If(IsFunction(Cfg(config, "hookBeforeRoutes")), <<"hookBeforeRoutes">>)
    \o If(Truthy(Cfg(config, "routes")),
          IF IsFunction(Get(Cfg(config, "routes"), "routes"))
          THEN <<"routes.routes()">> ELSE <<"routes">>)

\* The app.use calls of the constructor, in the order of the code.  The two
\* hook invocations are recorded where they happen.
Middleware(config, e) ==
    <<"requestReceived">>
    \o If(Truthy(Cfg(config, "timeout")), <<"timeout">>)
    \o <<"responseTime", "requestId", "cabin">>
    \o If(IsFunction(Cfg(config, "hookBeforeSetup")), <<"hookBeforeSetup">>)
    \o If(Truthy(Cfg(config, "auth")), <<"auth">>)
    \o If(Truthy(Cfg(config, "rateLimit")), <<"rateLimit">>)
    \o <<"removeTrailingSlashes">>
    \o If(Truthy(Cfg(config, "helmet")), <<"helmet">>)
    \o If(Truthy(Cfg(config, "i18n")), <<"i18n.middleware", "i18n.redirect">>)
    \o <<"conditional", "etag">>
    \o If(Truthy(Cfg(config, "cors")), <<"cors">>)
    \o If(Truthy(Cfg(config, "compress")), <<"compress">>)
    \o If(Truthy(Cfg(config, "koaCash")), <<"koaCash">>)
    \o If(Truthy(Cfg(config, "cacheResponses")), <<"cacheResponses">>)
    \o If(Truthy(Cfg(config, "favicon")), <<"favicon">>)
    \o If(Truthy(Cfg(config, "buildDir")) /\ Truthy(Cfg(config, "serveStatic")),
          <<"serveStatic">>)
    \o <<"views", "isajax">>
    \o If(Truthy(Cfg(config, "meta")), <<"meta">>)
    \o <<"stateHelper">>
    \o <<"session">>
    \o If(Truthy(Cfg(config, "redirectLoop")), <<"redirectLoop">>)
    \o <<"flash">>
    \o <<"bodyParser", "json">>
    \o If(Truthy(Cfg(config, "methodOverride")), <<"methodOverride">>)
    \o If(Truthy(Cfg(config, "csrf")) /\ e.NODE_ENV # Str(<<"test">>), <<"csrf">>)
    \o If(Truthy(Cfg(config, "passport")),
          <<"passport.initialize", "passport.session">>)
    \o If(Truthy(Cfg(config, "storeIPAddress")), <<"storeIPAddress">>)
    \o <<"koa404Handler">>
    \o If(IsFunction(Cfg(config, "hookBeforeRoutes")), <<"hookBeforeRoutes">>)
    \o If(Truthy(Cfg(config, "routes")),
          IF IsFunction(Get(Cfg(config, "routes"), "routes"))
          THEN <<"routes.routes()">> ELSE <<"routes">>)

\* http2.createSecureServer(options, handler) and http.createServer(handler):
\* neither inspects the credentials; a TLS server without them is created and
\* fails its handshakes later.
createServer(config) ==
    IF Cfg(config, "protocol") = Str(<<"https">>)
    THEN [kind |-> "http2-secure", options |-> Cfg(config, "ssl"),
          handler |-> "app.callback()"]
    ELSE [kind |-> "http", options |-> Undefined, handler |-> "app.callback()"]

\* `new Web(config)` in environment e: the instance, or the TypeError of
\* `this.config.views.locals.cache` when views or views.locals is missing.
Constructor(config, e) ==
    LET merged == mergeConfig(e, config)
        views == Cfg(merged, "views")
    IN IF Nullish(views) \/ Nullish(Get(views, "locals"))
       THEN [status |-> "threw", error |-> "TypeError"]
       ELSE [status |-> "constructed",
             config |-> merged,
             cabin |-> Spread([logger |-> Cfg(merged, "logger")],
                              IF Cfg(merged, "cabin").type = "object"
                              THEN Cfg(merged, "cabin").props ELSE NoProps),
             app |-> [proxy |-> boolean(e.TRUST_PROXY),
                      cache |-> boolean(Get(Get(views, "locals"), "cache")),
                      keys |-> Cfg(merged, "sessionKeys"),
                      errorListeners |-> <<"logError">>,
                      middleware |-> Middleware(merged, e)],
             server |-> createServer(merged)]

----------------------------------------------------------------------------
(* Requests at the rate-limiting step and at the CSRF step *)

\* minimatch on sequences of fragments: a literal fragment matches itself and
\* "*" matches one path segment (never "/").
minimatch(path, glob) ==
    /\ Len(path) = Len(glob)
    /\ \A i \in 1..Len(glob) : glob[i] = path[i] \/ (glob[i] = "*" /\ path[i] # "/")

\* multimatch(path, patterns) for one path: each pattern in turn adds the
\* path to the result if it matches, or, when it starts with "!", removes it
\* if the rest of the pattern matches.  TRUE when the result is not empty.
RECURSIVE multimatch(_, _, _)
multimatch(path, patterns, selected) ==
    IF patterns = <<>>
    THEN selected
    ELSE LET glob == Head(patterns).chars
         IN multimatch(path, Tail(patterns),
                IF glob # <<>> /\ glob[1] = "!"
                THEN selected /\ ~minimatch(path, Tail(glob))
                ELSE selected \/ minimatch(path, glob))

\* The guard without the match: any non-empty list ignores every path (the
\* variant C5 is tested against).
Ignored_always(path, globs) == globs.type = "array" /\ Len(globs.items) > 0

\* The guard both steps share: the list is a non-empty array and multimatch
\* of ctx.path against it returns a match.
Ignored(path, globs) ==
    /\ globs.type = "array"
    /\ Len(globs.items) > 0
    /\ multimatch(path, globs.items, FALSE)

\* The rate-limiting middleware without its bypass: the variant C4 is tested
\* against.
rateLimitMiddleware_noBypass(config, path, verdict) ==
    [limiterCalls |-> 1, next |-> verdict = "allow",
     status |-> IF verdict = "allow" THEN 0 ELSE 429]

\* The rate-limiting middleware on a request for `path`; `verdict` is what
\* koa-simple-ratelimit decides if it is invoked.
rateLimitMiddleware(config, path, verdict) ==
    IF Ignored(path, Cfg(config, "rateLimitIgnoredGlobs"))
    THEN [limiterCalls |-> 0, next |-> TRUE, status |-> 0]
    ELSE [limiterCalls |-> 1, next |-> verdict = "allow",
          status |-> IF verdict = "allow" THEN 0 ELSE 429]

NoError == [id |-> "none"]

\* Errors: status 0 stands for no status property; output is Boom's
\* output.statusCode (0 when the error is not a Boom error).
Error(id, name, message, stack, status, http, props) ==
    [id |-> id, name |-> name, message |-> message, stack |-> stack,
     status |-> status, expose |-> status # 0 /\ status < 500, http |-> http,
     isBoom |-> FALSE, output |-> 0, props |-> props]

\* koa-csrf's ctx.throw(403, invalidTokenMessage(ctx)).
CsrfFailure ==
    Error("csrf", "ForbiddenError", "Invalid CSRF token", "at csrf", 403, TRUE, {})

\* What later middleware and routes throw.
DownstreamErrors ==
    {Error("route-error", "Error", "boom", "at route", 0, FALSE, {}),
     Error("route-404", "NotFoundError", "Not Found", "at route", 404, TRUE, {}),
     Error("route-403", "ForbiddenError", "Members only", "at route", 403, TRUE,
           {"headers"}),
     Error("custom-403", "ForbiddenError", "Members only", "", 403, FALSE, {})}

\* Boom.forbidden(message)
BoomForbidden(message) ==
    [id |-> "boom", name |-> "Error", message |-> message,
     stack |-> "at Boom.forbidden", status |-> 0, expose |-> FALSE, http |-> FALSE,
     isBoom |-> TRUE, output |-> 403, props |-> {}]

\* ctx.throw(err) with an Error: http-errors gives it status 500 when it has
\* none and leaves an HttpError of that status as it is.
ctxThrow(err) ==
    LET status == IF err.status # 0 THEN err.status ELSE 500
    IN IF err.http /\ err.status = status
       THEN err
       ELSE [err EXCEPT !.status = status, !.expose = status < 500]

\* The catch block of the CSRF step, with its ctx.throw.
rewrap(err) ==
    IF err.name # "" /\ err.name = "ForbiddenError"
    THEN LET error == BoomForbidden(err.message)
         IN ctxThrow(IF err.stack # "" THEN [error EXCEPT !.stack = err.stack]
                     ELSE error)
    ELSE ctxThrow(err)

\* The CSRF middleware on a request for `path`: tokenOk is koa-csrf's verdict
\* if it is invoked, downstream what the middleware after it throw (NoError
\* if nothing).
csrfMiddleware(config, path, tokenOk, downstream) ==
    IF Ignored(path, Cfg(config, "csrfIgnoredGlobs"))
    THEN [csrfCalls |-> 0, next |-> TRUE, caught |-> NoError, thrown |-> downstream]
    ELSE LET err == IF tokenOk THEN downstream ELSE CsrfFailure
         IN [csrfCalls |-> 1, next |-> tokenOk, caught |-> err,
             thrown |-> IF err = NoError THEN NoError ELSE rewrap(err)]

\* The response is sent (or the error handed to the error handler) and the
\* request is over.
EndRequest ==
    /\ request.phase = "done"
    /\ request' = [phase |-> "none"]
    /\ UNCHANGED <<env, input, web, logs, events, net, inst, proc>>

Attached(name) == \E i \in 1..Len(web.app.middleware) : web.app.middleware[i] = name

Paths ==
    {<<"/", "report">>, <<"/", "health">>, <<"/", "hook">>,
     <<"/", "api", "/", "users">>}

\* One request through the pipeline.  `upstream` tells where a middleware
\* other than the two modelled ones ends the request: before the
\* rate-limiting step, between it and the CSRF step, or nowhere.
HandleRequest(path, upstream, verdict, tokenOk, downstream) ==
    /\ web.status = "constructed"
    /\ request.phase = "none"
    /\ LET reached8 == upstream # "before8"
           limited == reached8 /\ Attached("rateLimit")
           r == IF limited
                THEN rateLimitMiddleware(web.config, path, verdict)
                ELSE [limiterCalls |-> 0, next |-> TRUE, status |-> 0]
           reached30 == reached8 /\ r.next /\ upstream # "before30"
           c == IF reached30 /\ Attached("csrf")
                THEN csrfMiddleware(web.config, path, tokenOk, downstream)
                ELSE [csrfCalls |-> 0, next |-> TRUE, caught |-> NoError,
                      thrown |-> IF reached30 THEN downstream ELSE NoError]
       IN request' = [phase |-> "done", path |-> path,
                      reached8 |-> reached8, rateLimited |-> limited,
                      limiterCalls |-> r.limiterCalls, passed8 |-> reached8 /\ r.next,
                      status |-> r.status,
                      reached30 |-> reached30, csrfCalls |-> c.csrfCalls,
                      passed30 |-> reached30 /\ c.next,
                      caught |-> c.caught, thrown |-> c.thrown]
    /\ UNCHANGED <<env, input, web, logs, events, net, inst, proc>>

----------------------------------------------------------------------------
(* The configurations a caller passes *)

Custom == Obj([custom |-> Bool(TRUE)])
OnOff == {Bool(FALSE), Custom}

\* For each field of the configuration, the values the model lets a caller give.
Cand ==
    [timeout |-> OnOff,
     hookBeforeSetup |-> {Fn("hook"), Str(<<"notAFunction">>)},
     auth |-> OnOff,
     rateLimit |-> OnOff,
     rateLimitIgnoredGlobs |-> {Arr(<<>>), Arr(<<Str(<<"/", "health">>)>>)},
     helmet |-> {Bool(FALSE), Obj(NoProps),
                 Obj([contentSecurityPolicy |-> Custom])},
     i18n |-> {Bool(FALSE), Obj(NoProps), Obj([config |-> Custom])},
     cors |-> OnOff,
     compress |-> OnOff,
     koaCash |-> OnOff,
     cacheResponses |-> OnOff,
     favicon |-> {Bool(FALSE), Obj([path |-> Str(<<"/srv/favicon.ico">>)])},
     buildDir |-> {Str(<<>>), Str(<<"/srv/build">>)},
     serveStatic |-> OnOff,
     views |-> {Obj([root |-> Str(<<"/srv/views">>)]),
                Obj([root |-> Str(<<"/srv/views">>),
                     locals |-> Obj([cache |-> Bool(TRUE)])])},
     meta |-> OnOff,
     sessionKeys |-> {Arr(<<Str(<<"secret">>)>>)},
     cookiesKey |-> {Str(<<"app.sid">>)},
     redirectLoop |-> OnOff,
     methodOverride |-> {Bool(FALSE), Arr(<<Fn("header")>>)},
     csrf |-> OnOff,
     csrfIgnoredGlobs |-> {Arr(<<>>), Arr(<<Str(<<"/", "hook">>)>>)},
     passport |-> OnOff,
     storeIPAddress |-> OnOff,
     hookBeforeRoutes |-> {Fn("hook"), Str(<<"notAFunction">>)},
     routes |-> {Bool(FALSE), Fn("middleware"), Obj([routes |-> Fn("routes")])},
     protocol |-> {Str(<<"http">>), Str(<<"https">>)},
     ssl |-> {Obj([key |-> Str(<<"key.pem">>), cert |-> Str(<<"cert.pem">>)])},
     port |-> {Num(8080)},
     serverHost |-> {Str(<<"127.0.0.1">>)}]

Fields == DOMAIN Cand

\* The most fields a caller configuration changes in one of the base
\* configurations below.
MaxOverrides == 1

\* config with field f set to v.
With(config, f, v) ==
    [k \in (DOMAIN config) \cup {f} |-> IF k = f THEN v ELSE config[k]]

\* The configurations that set at most n fields.
RECURSIVE ConfigsUpTo(_)
ConfigsUpTo(n) ==
    IF n = 0
    THEN {NoProps}
    ELSE LET smaller == ConfigsUpTo(n - 1)
         IN smaller \cup
            UNION {UNION {{With(c, f, v) : v \in Cand[f]} :
                              f \in Fields \ DOMAIN c} : c \in smaller}

\* An application with routes, both hooks, authentication and caching.
TypicalApp ==
    [routes |-> Obj([routes |-> Fn("routes")]),
     hookBeforeSetup |-> Fn("hook"),
     hookBeforeRoutes |-> Fn("hook"),
     passport |-> Custom,
     koaCash |-> Custom,
     auth |-> Custom]

\* An application served over TLS with a plain middleware as its routes.
SecureApp ==
    [protocol |-> Str(<<"https">>),
     ssl |-> Obj([key |-> Str(<<"key.pem">>), cert |-> Str(<<"cert.pem">>)]),
     routes |-> Fn("middleware"),
     csrfIgnoredGlobs |-> Arr(<<Str(<<"/", "hook">>)>>),
     rateLimit |-> Custom]

BaseConfigs == {NoProps, TypicalApp, SecureApp}

Configs == {Spread(b, c) : b \in BaseConfigs, c \in ConfigsUpTo(MaxOverrides)}

----------------------------------------------------------------------------
(* Construction *)

NoInstance == [status |-> "none"]
NoRequest == [phase |-> "none"]

\* Run `new Web(input)`.
Construct ==
    /\ web.status = "none"
    /\ web' = Constructor(input, env)
    /\ UNCHANGED <<env, input, request, logs, events, net, inst, proc>>

Init ==
    /\ env \in Envs
    /\ input \in Configs
    /\ web = NoInstance
    /\ request = NoRequest
    /\ logs = <<>>
    /\ events = <<>>
    /\ net = {}
    /\ inst = NoProps
    /\ proc = "running"

Next == Construct

Spec == Init /\ [][Next]_vars

----------------------------------------------------------------------------
(* Serving requests *)

\* The most patterns in an ignore list.
MaxGlobs == 2

Patterns ==
    {Str(<<"/", "report">>), Str(<<"/", "health">>), Str(<<"/", "*">>),
     Str(<<"!", "/", "report">>)}

RECURSIVE GlobLists(_)
GlobLists(n) ==
    IF n = 0
    THEN {<<>>}
    ELSE LET shorter == GlobLists(n - 1)
         IN shorter \cup {Append(l, g) : l \in shorter, g \in Patterns}

GlobValues == {Bool(FALSE)} \cup {Arr(l) : l \in GlobLists(MaxGlobs)}

\* Configurations that switch the two steps on or off and replace one of the
\* two ignore lists.
RequestConfigs ==
    {Spread([rateLimit |-> rl, csrf |-> cs], g) :
        rl \in OnOff, cs \in OnOff,
        g \in {NoProps}
                \cup {[rateLimitIgnoredGlobs |-> v] : v \in GlobValues}
                \cup {[csrfIgnoredGlobs |-> v] : v \in GlobValues}}

RequestInit ==
    /\ env \in {BareEnv(Undefined, m) : m \in Modes}
    /\ input \in RequestConfigs
    /\ web = NoInstance
    /\ request = NoRequest
    /\ logs = <<>>
    /\ events = <<>>
    /\ net = {}
    /\ inst = NoProps
    /\ proc = "running"

RequestNext ==
    \/ Construct
    \/ \E path \in Paths, upstream \in {"before8", "before30", "none"},
          verdict \in {"allow", "reject"}, tokenOk \in BOOLEAN,
          downstream \in DownstreamErrors \cup {NoError} :
            HandleRequest(path, upstream, verdict, tokenOk, downstream)
    \/ EndRequest

SpecRequest == RequestInit /\ [][RequestNext]_vars

----------------------------------------------------------------------------
(* Application-level error events *)

\* The most error events in one run.
MaxEvents == 2

\* The listener with `<= 500` for `< 500`: the variant C6 is tested against.
logError_upTo500(error, ctxLogger) ==
    [level |-> IF error.status # 0 /\ error.status <= 500 THEN "warn" ELSE "error",
     logger |-> IF ctxLogger THEN "ctx.logger" ELSE "cabin",
     error |-> error.id]

\* The listener of app's 'error' event: the one call it makes to a logger.
logError(error, ctxLogger) ==
    [level |-> IF error.status # 0 /\ error.status < 500 THEN "warn" ELSE "error",
     logger |-> IF ctxLogger THEN "ctx.logger" ELSE "cabin",
     error |-> error.id]

\* The errors that reach the application, by status (0: none).
EmittedErrors ==
    {Error("e-none", "Error", "boom", "at x", 0, FALSE, {}),
     Error("e-400", "BadRequestError", "Bad Request", "at x", 400, TRUE, {}),
     Error("e-403", "ForbiddenError", "Forbidden", "at x", 403, TRUE, {}),
     Error("e-499", "Error", "Client Closed Request", "at x", 499, FALSE, {}),
     Error("e-500", "InternalServerError", "Oops", "at x", 500, TRUE, {}),
     Error("e-503", "ServiceUnavailableError", "Down", "at x", 503, TRUE, {})}

\* app.emit('error', error, ctx): every listener of the event runs; the
\* constructor registered one.  ctxLogger tells whether ctx.logger is set.
EmitError(error, ctxLogger) ==
    /\ web.status = "constructed"
    /\ Len(events) < MaxEvents
    /\ events' = Append(events, [error |-> error, ctxLogger |-> ctxLogger])
    /\ logs' = logs \o [i \in 1..Len(web.app.errorListeners) |->
                           logError(error, ctxLogger)]
    /\ UNCHANGED <<env, input, web, request, net, inst, proc>>

ErrorInit ==
    /\ env \in {BareEnv(Undefined, m) : m \in Modes}
            \cup {FullEnv(Undefined, m) : m \in Modes}
    /\ input \in {NoProps, [logger |-> Custom], [cabin |-> Custom]}
    /\ web = NoInstance
    /\ request = NoRequest
    /\ logs = <<>>
    /\ events = <<>>
    /\ net = {}
    /\ inst = NoProps
    /\ proc = "running"

ErrorNext ==
    \/ Construct
    \/ \E error \in EmittedErrors, ctxLogger \in BOOLEAN : EmitError(error, ctxLogger)

SpecError == ErrorInit /\ [][ErrorNext]_vars

----------------------------------------------------------------------------
(* listen() and close() *)

\* Two instances built from the same configuration in one process.
Instances == {"first", "second"}

\* A server that was never told to listen, with no promise outstanding.
\* errorListener: whether the caller attached an 'error' listener to
\* web.server (the class attaches none).
Idle(errorListener) ==
    [server |-> "idle", port |-> Undefined, host |-> Undefined,
     askedPort |-> Undefined, askedHost |-> Undefined, bind |-> "none", listenP |-> "none", closeP |-> "none",
     errorListener |-> errorListener]

\* `port = this.config.port`, `host = this.config.serverHost`: a default
\* parameter is used when the argument is undefined.
DefaultTo(arg, configured) == IF arg = Undefined THEN configured ELSE arg

\* web.listen(port, host) on instance i.  server.listen throws when the
\* server is already listening or binding, which rejects the promise; else
\* the bind starts and the promise waits for the 'listening' event.
\* The caller awaits each call (`await web.listen()`), so it makes no call on
\* an instance whose promise is pending.  bind is the outcome of the latest
\* call: none yet, ok, failed, or threw.
Listen(i, port, host) ==
    /\ proc = "running"
    /\ web.status = "constructed"
    /\ inst[i].listenP # "pending"
    /\ IF inst[i].server \in {"binding", "listening"}
       THEN inst' = [inst EXCEPT ![i].listenP = "rejected", ![i].bind = "threw",
                                 ![i].closeP = "none"]
       ELSE inst' = [inst EXCEPT
                ![i].server = "binding",
                ![i].port = DefaultTo(port, Cfg(web.config, "port")),
                ![i].host = DefaultTo(host, Cfg(web.config, "serverHost")),
                ![i].askedPort = port,
                ![i].askedHost = host,
                ![i].bind = "none",
                ![i].listenP = "pending",
                ![i].closeP = "none"]
    /\ UNCHANGED <<env, input, web, request, logs, events, net, proc>>

\* The port of instance i's server is held by another listening server.  With
\* no port (undefined) the operating system picks a free one.
InUse(i) ==
    /\ inst[i].port.type = "number"
    /\ \E j \in Instances \ {i} :
          inst[j].server = "listening" /\ inst[j].port = inst[i].port

\* The bind succeeds: the server emits 'listening', which calls the callback
\* util.promisify passed to server.listen, and the promise resolves.
Bound(i) ==
    /\ proc = "running"
    /\ inst[i].server = "binding"
    /\ ~InUse(i)
    /\ inst' = [inst EXCEPT ![i].server = "listening", ![i].bind = "ok",
                            ![i].listenP = "resolved"]
    /\ net' = net \cup {<<i, inst[i].port>>}
    /\ UNCHANGED <<env, input, web, request, logs, events, proc>>

\* The bind fails (EADDRINUSE): the server emits 'error'.  The callback given
\* to server.listen listens to 'listening' only, so the promise stays pending;
\* without an 'error' listener the event is an uncaught exception.
BindFailed(i) ==
    /\ proc = "running"
    /\ inst[i].server = "binding"
    /\ InUse(i)
    /\ inst' = [inst EXCEPT ![i].server = "idle", ![i].bind = "failed"]
    /\ proc' = IF inst[i].errorListener THEN "running" ELSE "crashed"
    /\ UNCHANGED <<env, input, web, request, logs, events, net>>

\* web.close() on instance i: `util.promisify(this.server.close).bind(this.server)`
\* makes a function and never calls it; awaiting it resolves at once and the
\* server is left as it was.
Close(i) ==
    /\ proc = "running"
    /\ web.status = "constructed"
    /\ inst[i].listenP # "pending"
    /\ inst' = [inst EXCEPT ![i].closeP = "resolved"]
    /\ UNCHANGED <<env, input, web, request, logs, events, net, proc>>

LifecycleInit ==
    /\ env \in {BareEnv(Undefined, Str(<<"production">>)),
                FullEnv(Undefined, Str(<<"production">>))}
    /\ input \in {NoProps, [port |-> Num(8080)],
                  [port |-> Num(8080), serverHost |-> Str(<<"127.0.0.1">>)]}
    /\ web = Constructor(input, env)
    /\ request = NoRequest
    /\ logs = <<>>
    /\ events = <<>>
    /\ net = {}
    /\ \E listeners \in [Instances -> BOOLEAN] :
          inst = [i \in Instances |-> Idle(listeners[i])]
    /\ proc = "running"

LifecycleNext ==
    \/ \E i \in Instances, port \in {Undefined, Num(3000), Num(8080)},
          host \in {Undefined, Str(<<"127.0.0.1">>)} : Listen(i, port, host)
    \/ \E i \in Instances : Bound(i)
    \/ \E i \in Instances : BindFailed(i)
    \/ \E i \in Instances : Close(i)

SpecLifecycle == LifecycleInit /\ [][LifecycleNext]_vars

----------------------------------------------------------------------------
(* Claims about construction *)

Constructed == web.status = "constructed"

\* The row of the ordering table a middleware belongs to.
RowOf(name) ==
    CASE name = "requestReceived" -> 1
      [] name = "timeout" -> 2
      [] name = "responseTime" -> 3
      [] name = "requestId" -> 4
      [] name = "cabin" -> 5
      [] name = "hookBeforeSetup" -> 6
      [] name = "auth" -> 7
      [] name = "rateLimit" -> 8
      [] name = "removeTrailingSlashes" -> 9
      [] name = "helmet" -> 10
      [] name \in {"i18n.middleware", "i18n.redirect"} -> 11
      [] name = "conditional" -> 12
      [] name = "etag" -> 13
      [] name = "cors" -> 14
      [] name = "compress" -> 15
      [] name = "koaCash" -> 16
      [] name = "cacheResponses" -> 17
      [] name = "favicon" -> 18
      [] name = "serveStatic" -> 19
      [] name = "views" -> 20
      [] name = "isajax" -> 21
      [] name = "meta" -> 22
      [] name = "stateHelper" -> 23
      [] name = "session" -> 24
      [] name = "redirectLoop" -> 25
      [] name = "flash" -> 26
      [] name = "bodyParser" -> 27
      [] name = "json" -> 28
      [] name = "methodOverride" -> 29
      [] name = "csrf" -> 30
      [] name \in {"passport.initialize", "passport.session"} -> 31
      [] name = "storeIPAddress" -> 32
      [] name = "koa404Handler" -> 33
      [] name = "hookBeforeRoutes" -> 34
      [] name \in {"routes", "routes.routes()"} -> 35
      [] OTHER -> 0

\* The condition of each row of the ordering table, on the constructed
\* configuration c in environment e.
RowEnabled(n, c, e) ==
    CASE n = 2 -> Truthy(Cfg(c, "timeout"))
      [] n = 6 -> IsFunction(Cfg(c, "hookBeforeSetup"))
      [] n = 7 -> Truthy(Cfg(c, "auth"))
      [] n = 8 -> Truthy(Cfg(c, "rateLimit"))
      [] n = 10 -> Truthy(Cfg(c, "helmet"))
      [] n = 11 -> Truthy(Cfg(c, "i18n"))
      [] n = 14 -> Truthy(Cfg(c, "cors"))
      [] n = 15 -> Truthy(Cfg(c, "compress"))
      [] n = 16 -> Truthy(Cfg(c, "koaCash"))
      [] n = 17 -> Truthy(Cfg(c, "cacheResponses"))
      [] n = 18 -> Truthy(Cfg(c, "favicon"))
      [] n = 19 -> Truthy(Cfg(c, "buildDir")) /\ Truthy(Cfg(c, "serveStatic"))
      [] n = 22 -> Truthy(Cfg(c, "meta"))
      [] n = 25 -> Truthy(Cfg(c, "redirectLoop"))
      [] n = 29 -> Truthy(Cfg(c, "methodOverride"))
      [] n = 30 -> Truthy(Cfg(c, "csrf")) /\ e.NODE_ENV # Str(<<"test">>)
      [] n = 31 -> Truthy(Cfg(c, "passport"))
      [] n = 32 -> Truthy(Cfg(c, "storeIPAddress"))
      [] n = 34 -> IsFunction(Cfg(c, "hookBeforeRoutes"))
      [] n = 35 -> Truthy(Cfg(c, "routes"))
      [] OTHER -> TRUE

\* Locale detection and redirect (11) and the auth-session integration (31)
\* are two middleware each.
RowWidth(n) == IF n \in {11, 31} THEN 2 ELSE 1

\* The rows n..35 whose condition holds, in table order, each as many times
\* as it has middleware.
RECURSIVE EnabledRows(_, _, _)
EnabledRows(n, c, e) ==
    IF n > 35
    THEN <<>>
    ELSE (IF RowEnabled(n, c, e) THEN [i \in 1..RowWidth(n) |-> n] ELSE <<>>)
             \o EnabledRows(n + 1, c, e)

\* The positions of a middleware in the attached sequence.
Positions(mw, name) == {i \in 1..Len(mw) : mw[i] = name}

\* Every a is attached before every b.
Precedes(mw, a, b) ==
    \A i \in Positions(mw, a) : \A j \in Positions(mw, b) : i < j

\* C1: the attached middleware are the enabled rows of the ordering table,
\* each once and in table order (no enabled row missing, none attached twice,
\* no two swapped), with the precedences the table documents.
C1_AttachOrder ==
    Constructed =>
        LET mw == web.app.middleware
        IN /\ [i \in 1..Len(mw) |-> RowOf(mw[i])] = EnabledRows(1, web.config, env)
           /\ \A i, j \in 1..Len(mw) : mw[i] = mw[j] => i = j
           /\ Precedes(mw, "i18n.middleware", "i18n.redirect")
           /\ Precedes(mw, "passport.initialize", "passport.session")
           /\ Positions(mw, "session") # {}
           /\ Precedes(mw, "session", "redirectLoop")
           /\ Precedes(mw, "session", "flash")
           /\ Precedes(mw, "conditional", "etag")
           /\ Precedes(mw, "views", "meta")
           /\ \A r \in {"routes", "routes.routes()"} :
                  /\ Precedes(mw, "methodOverride", r)
                  /\ Precedes(mw, "csrf", r)

\* A constructed application with both hooks given, CSRF and redirect-loop
\* detection attached and response caching left out.
C1_Witness ==
    /\ Constructed
    /\ Positions(web.app.middleware, "hookBeforeSetup") # {}
    /\ Positions(web.app.middleware, "hookBeforeRoutes") # {}
    /\ Positions(web.app.middleware, "csrf") # {}
    /\ Positions(web.app.middleware, "redirectLoop") # {}
    /\ Positions(web.app.middleware, "koaCash") = {}

\* C7: the server is plain HTTP/1.1 unless protocol is 'https', then it is a
\* secure HTTP/2 server on config.ssl; and no instance is constructed with
\* protocol 'https' and no ssl credentials.
C7_TransportSelection ==
    LET protocol == Cfg(mergeConfig(env, input), "protocol")
        ssl == Cfg(mergeConfig(env, input), "ssl")
    IN /\ Constructed /\ protocol # Str(<<"https">>) =>
              web.server.kind = "http" /\ web.server.handler = "app.callback()"
       /\ Constructed /\ protocol = Str(<<"https">>) =>
              /\ web.server.kind = "http2-secure"
              /\ web.server.options = ssl
              /\ web.server.handler = "app.callback()"
       /\ protocol = Str(<<"https">>) /\ ~Truthy(ssl) => ~Constructed

\* C8 as stated: whenever helmet is truthy and WEB_HOST is absent or blank,
\* the helmet policy's contentSecurityPolicy is null.
C8_CspNullWheneverHelmetSet ==
    (Constructed /\ Truthy(Cfg(web.config, "helmet")) /\ ~isSANB(env.WEB_HOST))
        => Get(Cfg(web.config, "helmet"), "contentSecurityPolicy") = Null

\* C8 amended: when the caller leaves helmet to its default and WEB_HOST is
\* absent or blank, helmet is set and its contentSecurityPolicy is null.
C8_DefaultCspNull ==
    (Constructed /\ "helmet" \notin DOMAIN input /\ ~isSANB(env.WEB_HOST))
        => /\ Truthy(Cfg(web.config, "helmet"))
           /\ Get(Cfg(web.config, "helmet"), "contentSecurityPolicy") = Null

\* An instance constructed with the default helmet and a blank WEB_HOST.
C8_Witness ==
    /\ Constructed
    /\ "helmet" \notin DOMAIN input
    /\ env.WEB_HOST = Str(<<" ">>)

\* The caller's properties merged over the defaults at every depth.
RECURSIVE MergedOver(_, _)
MergedOver(defaults, given) ==
    [k \in (DOMAIN defaults) \cup (DOMAIN given) |->
        IF k \notin DOMAIN given THEN defaults[k]
        ELSE IF k \in DOMAIN defaults /\ defaults[k].type = "object"
                 /\ given[k].type = "object"
             THEN Obj(MergedOver(defaults[k].props, given[k].props))
             ELSE given[k]]

\* C9: the constructed configuration holds the caller's value for every field
\* the caller supplies and the default for every other field, nested fields
\* of a partly supplied record included.
C9_MergedOverDefaults ==
    Constructed => web.config = MergedOver(Defaults(env), input)

----------------------------------------------------------------------------
(* Claims about requests *)

Negated(glob) == glob.chars # <<>> /\ glob.chars[1] = "!"

\* The path matches a pattern of the list that no later "!" pattern takes
\* back: what matching a list of patterns means to multimatch.
Selected(path, globs) ==
    /\ globs.type = "array"
    /\ \E i \in 1..Len(globs.items) :
          /\ ~Negated(globs.items[i])
          /\ minimatch(path, globs.items[i].chars)
          /\ \A j \in (i + 1)..Len(globs.items) :
                ~(Negated(globs.items[j])
                      /\ minimatch(path, Tail(globs.items[j].chars)))

Done == web.status = "constructed" /\ request.phase = "done"

SameError(a, b) == [a EXCEPT !.status = b.status, !.expose = b.expose] = b

\* C10: a failed token validation is rethrown as a forbidden (403) error with
\* the original message and stack; every other error the CSRF step catches,
\* errors of later middleware and routes included, is rethrown as it is.
C10_OnlyCsrfFailuresRewrapped ==
    (Done /\ request.caught # NoError) =>
        IF request.caught.id = "csrf"
        THEN /\ request.thrown.isBoom /\ request.thrown.output = 403
             /\ request.thrown.message = request.caught.message
             /\ request.thrown.stack = request.caught.stack
        ELSE SameError(request.thrown, request.caught)

----------------------------------------------------------------------------
(* Claims about error events *)

\* C6: every error event is logged exactly once, at warn when the error has
\* a status below 500 and at error otherwise (500 and above, or none), by the
\* request's logger when the context has one and by the fallback logger
\* otherwise.
C6_LoggedOnce ==
    /\ Len(logs) = Len(events)
    /\ \A i \in 1..Len(events) :
          LET status == events[i].error.status
          IN /\ i <= Len(logs)
             /\ logs[i].error = events[i].error.id
             /\ logs[i].level = IF status \in 1..499 THEN "warn" ELSE "error"
             /\ logs[i].logger = IF events[i].ctxLogger THEN "ctx.logger" ELSE "cabin"

\* A client error with a request logger, then a 500 without one.
C6_Witness ==
    /\ Len(events) = 2
    /\ events[1].error.status = 499 /\ events[1].ctxLogger
    /\ events[2].error.status = 500 /\ ~events[2].ctxLogger
    /\ Len(logs) = 2

----------------------------------------------------------------------------
(* Claims about listen() and close() *)

\* C2: listen() followed by close() does not throw, and once close() has
\* resolved the server is no longer listening and its port is free, so that
\* no other instance fails to bind it.
C2_CloseReleasesPort ==
    \A i \in Instances :
        inst[i].closeP = "resolved" =>
            /\ inst[i].server # "listening"
            /\ \A socket \in net : socket[1] # i
            /\ \A j \in Instances \ {i} :
                  ~(inst[j].bind = "failed" /\ inst[j].port = inst[i].port)

\* C3: listen() binds the given port and host, or the configured ones when
\* they are omitted; its promise resolves once the server is bound and
\* rejects when the bind fails.
C3_ListenSettles ==
    \A i \in Instances :
        /\ inst[i].bind = "ok" =>
              /\ inst[i].listenP = "resolved"
              /\ inst[i].server = "listening"
              /\ inst[i].port = IF inst[i].askedPort = Undefined
                                THEN Cfg(web.config, "port") ELSE inst[i].askedPort
              /\ inst[i].host = IF inst[i].askedHost = Undefined
                                THEN Cfg(web.config, "serverHost")
                                ELSE inst[i].askedHost
        /\ inst[i].bind = "failed" => inst[i].listenP = "rejected"

====
